---- MODULE Spec2Model ----
(***************************************************************************)
(* Model of the mapping lifecycle manager of s3-buddy (src/src/manager.rs): *)
(* the mapping table, the task table, the spawned refresh tasks and the    *)
(* manager calls add/update/delete/pause/resume, each split at its await   *)
(* points so that calls of concurrent HTTP handlers interleave.  Two       *)
(* further specifications look at one refresh task with its timer, clock   *)
(* and log (RefreshSpec) and at the proxy handler of src/src/server.rs     *)
(* (RouterSpec).                                                           *)
(***************************************************************************)
EXTENDS Integers, Sequences, FiniteSets, TLC

VARIABLES mappings, tasks, running, calls, ncalls, lastRet, hold, storm

\* the state of one refresh task seen with its clock and the refresh log, and
\* the request and response of the proxy handler
VARIABLES stored, task, now, log, response

\* the receiving end of the log channel; a mapping value under construction
\* in the create handler and the result of parsing its source
VARIABLES receiver, draft, parseResult
\* the single-mapping scheduler (src/src/scheduler.rs): its configuration and
\* the position of run
VARIABLE scheduler
\* the HTTP update handler (src/src/server.rs): the mapping it has read and
\* changed, and the position of the handler
VARIABLE handler

managerVars == <<mappings, tasks, running, calls, ncalls, lastRet, hold, storm>>

refreshVars == <<stored, task, now, log, receiver>>

createVars == <<draft, parseResult>>

vars == <<managerVars, refreshVars, response, createVars, scheduler, handler>>

----------------------------------------------------------------------------
(* Bounds of the model *)

NumIds == 2
NumCallers == 2
MaxTasks == 2
MaxCalls == 3

Ids == 1..NumIds
Callers == 1..NumCallers
Handles == 1..MaxTasks

----------------------------------------------------------------------------
(* Strings are sequences of characters, so that prefix tests and splits are *)
(* computed and not assumed.                                                *)

S3Prefix == <<"s", "3", ":", "/", "/">>

UrlDocs == <<"s", "3", ":", "/", "/", "b", "/", "d">>
UrlBucketOnly == <<"s", "3", ":", "/", "/", "b">>
UrlHttp == <<"h", ":", "/", "/", "x">>

Urls == {UrlDocs, UrlBucketOnly, UrlHttp}
Hosts == {"h1", "h2"}

NoMapping == [none |-> TRUE]
NoTask == 0

StartsWith(s, p) == Len(s) >= Len(p) /\ SubSeq(s, 1, Len(p)) = p

StripPrefix(s, p) == SubSeq(s, Len(p) + 1, Len(s))

\* a split at the last '/' instead of the first
SplitAtLast(s) ==
    IF \E i \in 1..Len(s) : s[i] = "/"
    THEN LET i == CHOOSE j \in 1..Len(s) :
                      s[j] = "/" /\ \A k \in (j + 1)..Len(s) : s[k] # "/"
         IN <<SubSeq(s, 1, i - 1), SubSeq(s, i + 1, Len(s))>>
    ELSE <<s>>

\* str::splitn(2, '/'): at most two parts, split at the first '/'
SplitN2(s) ==
    IF \E i \in 1..Len(s) : s[i] = "/"
    THEN LET i == CHOOSE j \in 1..Len(s) :
                      s[j] = "/" /\ \A k \in 1..(j - 1) : s[k] # "/"
         IN <<SubSeq(s, 1, i - 1), SubSeq(s, i + 1, Len(s))>>
    ELSE <<s>>

\* Config::new: rejects a url without the s3:// prefix
ConfigNew(s3_url) == StartsWith(s3_url, S3Prefix)

\* Config::parse_s3_url: the url must have a bucket and a key
ConfigParseS3Url(s3_url) ==
    IF ~StartsWith(s3_url, S3Prefix)
    THEN [ok |-> FALSE, bucket |-> <<>>, key |-> <<>>]
    ELSE LET parts == SplitN2(StripPrefix(s3_url, S3Prefix))
         IN IF Len(parts) # 2
            THEN [ok |-> FALSE, bucket |-> <<>>, key |-> <<>>]
            ELSE [ok |-> TRUE, bucket |-> parts[1], key |-> parts[2]]

\* the parse step of refresh_url: Config::new(..)? then parse_s3_url()?
RefreshParses(s3_url) == ConfigNew(s3_url) /\ ConfigParseS3Url(s3_url).ok

----------------------------------------------------------------------------
(* Mapping records *)

Statuses == {"Pending", "Active", "Paused", "Error"}

\* Mapping::new: a draft with status Pending and no error
MappingNew(id, s3_url, short_url) ==
    [id |-> id, s3_url |-> s3_url, short_url |-> short_url,
     status |-> "Pending", last_error |-> "none"]

\* the drafts add_mapping is called with: every form of source under the
\* first id, and a well-formed source under every id
Drafts ==
    {MappingNew(1, u, "h1") : u \in Urls} \cup {MappingNew(i, UrlDocs, "h1") : i \in Ids}

\* the replacements update_mapping is called with: a Mapping value of any id,
\* among them one with a source that is no s3 url and one in status Error, as
\* the update handler passes on when the stored mapping is in Error
Replacements ==
    [id : Ids, s3_url : {UrlDocs}, short_url : {"h2"},
     status : {"Active", "Paused"}, last_error : {"none"}]
    \cup [id : Ids, s3_url : {UrlHttp}, short_url : {"h2"},
           status : {"Active"}, last_error : {"none"}]
    \cup [id : Ids, s3_url : {UrlDocs}, short_url : {"h2"},
           status : {"Error"}, last_error : {"err"}]

\* the calls of update_mapping: an id with a replacement that carries this id,
\* as the update handler passes, or with an Active replacement of any id
UpdateInputs ==
    {p \in Ids \X Replacements :
        p[2].id = p[1] \/ (p[2].status = "Active" /\ p[2].s3_url = UrlDocs)}

----------------------------------------------------------------------------
(* State *)

NoRun == [id |-> 0, m |-> NoMapping, pc |-> "none", res |-> "none", aborted |-> FALSE]

NoCall == [op |-> "idle", id |-> 0, arg |-> NoMapping, pc |-> "idle", res |-> "none",
           handle |-> NoTask, touched |-> FALSE, alone |-> TRUE, absent |-> FALSE,
           after |-> "none"]

\* storm[id]: the calls on id that overlap the latest one, itself included,
\* are all pause or resume calls, and the first of them found the tables of
\* id in agreement
\* hold[id]: the last call on id that returned Ok without overlapping another
\* call on id, and its caller, while no later call on id has begun
NoHold == [op |-> "none", by |-> 0]

\* Option values: None and Some(x)
None == <<>>

Some(x) == <<x>>

\* Result<(), Error> values
ResultOk == <<"Ok">>

ResultErr(e) == <<"Err", e>>

\* no refresh task yet: the state before start_refresh_task
NoRefresher ==
    [m |-> NoMapping, pc |-> "none", result |-> <<>>, due |-> 0,
     refreshes |-> 0, ticks |-> 0, aborted |-> FALSE,
     presigned_url |-> None, dns |-> <<>>]

\* no update request is being handled
NoHandler == [pc |-> "none", mapping |-> NoMapping, by |-> 0, registered |-> FALSE]

\* no scheduler: the server does not create one
NoScheduler ==
    [s3_url |-> <<>>, short_url |-> "none", pc |-> "none", result |-> <<>>,
     due |-> 0, refreshes |-> 0, logged |-> 0, returned |-> None]

\* the receiver MappingManager::new returns: open, with nothing queued
NewReceiver == [open |-> TRUE, queued |-> 0]

\* no mapping value constructed yet
NoDraft == [m |-> NoMapping, pc |-> "none"]

\* no source parsed yet
NoParse == [ok |-> FALSE, bucket |-> <<>>, base_key |-> <<>>, done |-> FALSE]

\* no request handled yet
NoResponse == [status |-> "none"]

Present(id) == mappings[id] # NoMapping

\* get_mapping: the stored mapping, if any
GetMapping(id) == mappings[id]

\* the tasks that exist in the runtime and have not been aborted
Live(id) == {h \in Handles : running[h].id = id /\ ~running[h].aborted}

\* a caller is free when it has made no call yet or its last call has returned
Idle(c) == calls[c].pc \in {"idle", "done"}

InFlight(c) == ~Idle(c)

Quiescent == \A c \in Callers : Idle(c)

\* a refresh that takes the write lock before it calls the collaborators
LockedWhileCalling == {"sign", "publish"}

\* the stages of a refresh at whose await the task holds a lock of the mapping
\* table: refresh_url takes mappings.write() after both collaborator calls
\* have returned and awaits nothing under it
LockedStages == {}

\* some task holds the lock of the mapping table while it awaits; the calls
\* of the manager hold it within one step only
MappingsLocked == \E h \in Handles : running[h].pc \in LockedStages

\* the ids a call reads or writes: its target and the id of the mapping it carries
Concerns(c, id) ==
    /\ InFlight(c)
    /\ \/ calls[c].id = id
       \/ calls[c].arg # NoMapping /\ calls[c].arg.id = id

FreeHandles == {h \in Handles :
                   /\ running[h] = NoRun
                   /\ \A i \in Ids : tasks[i] # h
                   /\ \A c \in Callers : calls[c].handle # h}

\* calls that have still to spawn their task; a call that will spawn a task
\* begins only while a handle is left for it
PendingSpawns == {c \in Callers : calls[c].pc \in {"upd_write", "spawn"}}

CanSpawn == Cardinality(Handles \ FreeHandles) + Cardinality(PendingSpawns) < MaxTasks

Init ==
    /\ stored = NoMapping
    /\ task = NoRefresher
    /\ now = 0
    /\ log = <<>>
    /\ receiver = NewReceiver
    /\ draft = NoDraft
    /\ parseResult = NoParse
    /\ response = NoResponse
    /\ scheduler = NoScheduler
    /\ handler = NoHandler
    /\ mappings = [i \in Ids |-> NoMapping]
    /\ tasks = [i \in Ids |-> NoTask]
    /\ running = [h \in Handles |-> NoRun]
    /\ calls = [c \in Callers |-> NoCall]
    /\ ncalls = 0
    /\ lastRet = [i \in Ids |-> <<"none", "none">>]
    /\ hold = [i \in Ids |-> NoHold]
    /\ storm = [i \in Ids |-> FALSE]

----------------------------------------------------------------------------
(* start_refresh_task and stop_refresh_task *)

\* JoinHandle::abort: a task parked at an await point is dropped without running
\* again; a task that is being polled (it holds a refresh result and is on its
\* way to the write lock) runs on until its next await point.
AbortTask(run, h) ==
    IF run[h].pc = "wb"
    THEN [run EXCEPT ![h].aborted = TRUE]
    ELSE [run EXCEPT ![h] = NoRun]

\* stop_refresh_task: remove the handle registered under id and abort its task;
\* returns without waiting for the task to end
StopRefreshTaskTasks(id) == [tasks EXCEPT ![id] = NoTask]

StopRefreshTaskRunning(id) ==
    IF tasks[id] = NoTask THEN running ELSE AbortTask(running, tasks[id])

\* a start that fails
StartRefreshTaskFails == "Err"

\* start_refresh_task returns Ok(()) on every path
StartRefreshTaskResult == "Ok"

\* the tables agree on id: an Active or Error mapping with its one registered
\* task, or a Paused mapping without task, and no aborted task still ending
Settled(id) ==
    /\ Present(id)
    /\ \A h \in Handles : running[h].id = id => ~running[h].aborted
    /\ \/ /\ mappings[id].status \in {"Active", "Error"}
          /\ Live(id) = {tasks[id]}
       \/ /\ mappings[id].status = "Paused"
          /\ Live(id) = {}
          /\ tasks[id] = NoTask

\* the call record of a newly started call; the bookkeeping fields record
\* whether the call overlaps another call on the same id
NewCall(op, id, arg) ==
    [op |-> op, id |-> id, arg |-> arg, pc |-> "idle", res |-> "none",
     handle |-> NoTask, touched |-> FALSE,
     alone |-> \A d \in Callers :
                  ~(Concerns(d, id) \/ (arg # NoMapping /\ Concerns(d, arg.id))),
     absent |-> ~Present(id),
     after |-> hold[id].op]

\* starting a call on id ends the period in which the last call's result stands
Begin(c, call) ==
    /\ Idle(c)
    /\ \A d \in Callers : Idle(d) => c <= d
    /\ ncalls < MaxCalls
    /\ ncalls' = ncalls + 1
    /\ calls' = [d \in Callers |->
                   IF d = c THEN call
                   ELSE IF Concerns(d, call.id)
                           \/ (call.arg # NoMapping /\ Concerns(d, call.arg.id))
                        THEN [calls[d] EXCEPT !.alone = FALSE]
                        ELSE calls[d]]
    /\ hold' = [i \in Ids |->
                  IF i = call.id \/ (call.arg # NoMapping /\ i = call.arg.id)
                  THEN NoHold ELSE hold[i]]
    /\ storm' = [i \in Ids |->
                   IF i = call.id \/ (call.arg # NoMapping /\ i = call.arg.id)
                   THEN /\ call.op \in {"pause", "resume"}
                        /\ IF \E d \in Callers : Concerns(d, i)
                           THEN storm[i] ELSE Settled(i)
                   ELSE storm[i]]
    /\ UNCHANGED <<lastRet, refreshVars, response, scheduler, createVars>>

\* a call returns: its result is recorded, and the result of a call that did
\* not overlap another call on the id stands until the next call on the id
Finish(c, res) ==
    LET call == calls[c]
    IN /\ lastRet' = IF res = "Ok"
                     THEN [lastRet EXCEPT ![call.id] = <<@[2], call.op>>]
                     ELSE lastRet
       /\ hold' = IF res = "Ok" /\ call.alone
                  THEN [hold EXCEPT ![call.id] = [op |-> call.op, by |-> c]]
                  ELSE hold

----------------------------------------------------------------------------
(* add_mapping *)

\* a validation that lets every url through
AddValidAny(m) == Len(m.s3_url) >= 0

\* the validation of add_mapping: the url must start with s3://
AddValid(m) == StartsWith(m.s3_url, S3Prefix)

\* add_mapping up to its first await after the insert: validate, set the
\* status to Active, store the mapping
CallAdd(c, m) ==
    /\ AddValid(m) => CanSpawn /\ ~MappingsLocked
    /\ LET call == NewCall("add", m.id, [m EXCEPT !.status = "Active"])
       IN IF ~AddValid(m)
          THEN /\ Begin(c, [call EXCEPT !.pc = "done", !.res = "InvalidSource",
                                        !.arg = m])
               /\ UNCHANGED <<mappings, tasks, running, handler>>
          ELSE /\ Begin(c, [call EXCEPT !.pc = "spawn", !.touched = TRUE])
               /\ mappings' = [mappings EXCEPT ![m.id] = call.arg]
               /\ UNCHANGED <<tasks, running, handler>>

\* start_refresh_task, first half: tokio::spawn of the task with the mapping
\* it was given; the task is not yet registered
Spawn(c) ==
    /\ calls[c].pc = "spawn"
    /\ FreeHandles # {}
    /\ LET h == CHOOSE x \in FreeHandles : \A y \in FreeHandles : x <= y
       IN /\ running' = [running EXCEPT ![h] =
                            [id |-> calls[c].arg.id, m |-> calls[c].arg,
                             pc |-> "start", res |-> "none", aborted |-> FALSE]]
          /\ calls' = [calls EXCEPT ![c].pc = "register", ![c].handle = h,
                                    ![c].touched = TRUE]
    /\ UNCHANGED <<mappings, tasks, ncalls, lastRet, hold, storm,
                 refreshVars, response, scheduler, handler, createVars>>

\* start_refresh_task, second half: tasks.insert(mapping.id, handle); a handle
\* already stored under the id is dropped, which detaches its task.  Then the
\* caller's tail: add_mapping removes the mapping again if the start failed.
Register(c) ==
    /\ calls[c].pc = "register"
    /\ tasks' = [tasks EXCEPT ![calls[c].arg.id] = calls[c].handle]
    /\ LET res == StartRefreshTaskResult
       IN /\ mappings' = IF calls[c].op = "add" /\ res # "Ok"
                         THEN [mappings EXCEPT ![calls[c].id] = NoMapping]
                         ELSE mappings
          /\ calls' = [calls EXCEPT ![c].pc = "done", ![c].res = res,
                                    ![c].handle = NoTask]
          /\ Finish(c, res)
    /\ UNCHANGED <<running, ncalls, storm,
                 refreshVars, response, scheduler, handler, createVars>>

----------------------------------------------------------------------------
(* update_mapping, delete_mapping, pause_mapping, resume_mapping *)

\* the three calls that begin with stop_refresh_task(id)
CallStop(c, op, id, arg, next) ==
    /\ Begin(c, [NewCall(op, id, arg) EXCEPT !.pc = next,
                                             !.touched = (tasks[id] # NoTask)])
    /\ tasks' = StopRefreshTaskTasks(id)
    /\ running' = StopRefreshTaskRunning(id)
    /\ UNCHANGED mappings

CallUpdate(c, id, updates) ==
    /\ updates.status = "Active" => CanSpawn
    /\ CallStop(c, "update", id, updates, "upd_write")
    /\ UNCHANGED handler

\* update_mapping after the stop: replace the stored mapping by the
\* replacement, or fail when the id is not in the table
UpdateWrite(c) ==
    /\ calls[c].pc = "upd_write"
    /\ ~MappingsLocked
    /\ IF Present(calls[c].id)
       THEN /\ mappings' = [mappings EXCEPT ![calls[c].id] = calls[c].arg]
            /\ IF calls[c].arg.status = "Active"
               THEN /\ calls' = [calls EXCEPT ![c].pc = "spawn", ![c].touched = TRUE]
                    /\ UNCHANGED <<lastRet, hold>>
               ELSE /\ calls' = [calls EXCEPT ![c].pc = "done", ![c].res = "Ok",
                                              ![c].touched = TRUE]
                    /\ Finish(c, "Ok")
       ELSE /\ calls' = [calls EXCEPT ![c].pc = "done", ![c].res = "NotFound"]
            /\ Finish(c, "NotFound")
            /\ UNCHANGED mappings
    /\ UNCHANGED <<tasks, running, ncalls, storm,
                 refreshVars, response, scheduler, handler, createVars>>

CallDelete(c, id) ==
    /\ CallStop(c, "delete", id, NoMapping, "del_remove")
    /\ UNCHANGED handler

\* delete_mapping after the stop: mappings.remove(id), an error if absent
DeleteRemove(c) ==
    /\ calls[c].pc = "del_remove"
    /\ ~MappingsLocked
    /\ IF Present(calls[c].id)
       THEN /\ mappings' = [mappings EXCEPT ![calls[c].id] = NoMapping]
            /\ calls' = [calls EXCEPT ![c].pc = "done", ![c].res = "Ok",
                                      ![c].touched = TRUE]
            /\ Finish(c, "Ok")
       ELSE /\ calls' = [calls EXCEPT ![c].pc = "done", ![c].res = "NotFound"]
            /\ Finish(c, "NotFound")
            /\ UNCHANGED mappings
    /\ UNCHANGED <<tasks, running, ncalls, storm,
                 refreshVars, response, scheduler, handler, createVars>>

CallPause(c, id) ==
    /\ CallStop(c, "pause", id, NoMapping, "pause_write")
    /\ UNCHANGED handler

\* pause_mapping after the stop: set the stored status to Paused
PauseWrite(c) ==
    /\ calls[c].pc = "pause_write"
    /\ ~MappingsLocked
    /\ IF Present(calls[c].id)
       THEN /\ mappings' = [mappings EXCEPT ![calls[c].id].status = "Paused"]
            /\ calls' = [calls EXCEPT ![c].pc = "done", ![c].res = "Ok",
                                      ![c].touched = TRUE]
            /\ Finish(c, "Ok")
       ELSE /\ calls' = [calls EXCEPT ![c].pc = "done", ![c].res = "NotFound"]
            /\ Finish(c, "NotFound")
            /\ UNCHANGED mappings
    /\ UNCHANGED <<tasks, running, ncalls, storm,
                 refreshVars, response, scheduler, handler, createVars>>

\* a resume that leaves the stored mapping as it found it
ResumeWriteNothing(m) == m

\* the write of resume_mapping on the stored mapping, which it then clones
ResumeWrite(m) == [m EXCEPT !.status = "Active"]

\* resume_mapping up to its first await after the write: set the stored status
\* to Active and clone the stored mapping for the task; no stop comes first
CallResume(c, id) ==
    /\ Present(id) => CanSpawn
    /\ ~MappingsLocked
    /\ IF Present(id)
       THEN /\ mappings' = [mappings EXCEPT ![id] = ResumeWrite(mappings[id])]
            /\ Begin(c, [NewCall("resume", id, NoMapping) EXCEPT
                            !.pc = "spawn", !.touched = TRUE,
                            !.arg = ResumeWrite(mappings[id])])
       ELSE /\ Begin(c, [NewCall("resume", id, NoMapping) EXCEPT
                            !.pc = "done", !.res = "NotFound"])
            /\ UNCHANGED mappings
    /\ UNCHANGED <<tasks, running, handler>>

----------------------------------------------------------------------------
(* The refresh task spawned by start_refresh_task, and refresh_url *)

\* the task starts a refresh: at once when spawned, then on every tick.
\* refresh_url parses the url first; a parse error goes straight to the
\* write-back without calling the provider
TaskBegin(h) ==
    /\ running[h].pc \in {"start", "tick"}
    /\ running' = IF RefreshParses(running[h].m.s3_url)
                  THEN [running EXCEPT ![h].pc = "sign"]
                  ELSE [running EXCEPT ![h].pc = "wb", ![h].res = "err"]
    /\ UNCHANGED <<mappings, tasks, calls, ncalls, lastRet, hold, storm,
                 refreshVars, response, scheduler, handler, createVars>>

\* generate_presigned_url returns
TaskSign(h, ok) ==
    /\ running[h].pc = "sign"
    /\ running' = IF ok
                  THEN [running EXCEPT ![h].pc = "publish"]
                  ELSE [running EXCEPT ![h].pc = "wb", ![h].res = "err"]
    /\ UNCHANGED <<mappings, tasks, calls, ncalls, lastRet, hold, storm,
                 refreshVars, response, scheduler, handler, createVars>>

\* update_dns_record returns
TaskPublish(h, ok) ==
    /\ running[h].pc = "publish"
    /\ running' = [running EXCEPT ![h].pc = "wb",
                                  ![h].res = IF ok THEN "ok" ELSE "err"]
    /\ UNCHANGED <<mappings, tasks, calls, ncalls, lastRet, hold, storm,
                 refreshVars, response, scheduler, handler, createVars>>

\* a write-back that stores the status and leaves last_error as it is
WriteBackStatusOnly(m, res) ==
    IF ~Present(m.id) THEN mappings
    ELSE [mappings EXCEPT ![m.id].status = IF res = "ok" THEN "Active" ELSE "Error"]

\* a write-back that stores the outcome under mapping.id whether or not an
\* entry is there
WriteBackInserts(m, res) ==
    [mappings EXCEPT ![m.id] =
        [(IF Present(m.id) THEN mappings[m.id] ELSE m)
            EXCEPT !.status = IF res = "ok" THEN "Active" ELSE "Error",
                   !.last_error = IF res = "ok" THEN "none" ELSE "err"]]

\* a write-back that stores the task's own copy of the mapping
WriteBackWholeMapping(m, res) ==
    IF ~Present(m.id) THEN mappings
    ELSE IF res = "ok"
         THEN [mappings EXCEPT ![m.id] = [m EXCEPT !.status = "Active",
                                                   !.last_error = "none"]]
         ELSE [mappings EXCEPT ![m.id] = [m EXCEPT !.status = "Error",
                                                   !.last_error = "err"]]

\* a write-back that stores Active whatever the outcome of the refresh
WriteBackAlwaysActive(m, res) ==
    IF ~Present(m.id) THEN mappings
    ELSE [mappings EXCEPT ![m.id].status = "Active", ![m.id].last_error = "none"]

\* the status write-back of refresh_url on the entry stored under mapping.id
WriteBackMappings(m, res) ==
    IF ~Present(m.id) THEN mappings
    ELSE IF res = "ok"
         THEN [mappings EXCEPT ![m.id].status = "Active", ![m.id].last_error = "none"]
         ELSE [mappings EXCEPT ![m.id].status = "Error", ![m.id].last_error = "err"]

\* the task takes the write lock and writes the outcome back; a task that was
\* aborted meanwhile ends at the next await, the others wait for the next tick
TaskWriteBack(h) ==
    /\ running[h].pc = "wb"
    /\ ~MappingsLocked
    /\ mappings' = WriteBackMappings(running[h].m, running[h].res)
    /\ running' = IF running[h].aborted
                  THEN [running EXCEPT ![h] = NoRun]
                  ELSE [running EXCEPT ![h].pc = "tick", ![h].res = "none"]
    /\ UNCHANGED <<tasks, calls, ncalls, lastRet, hold, storm,
                 refreshVars, response, scheduler, handler, createVars>>

\* an aborted task that found the write lock taken is dropped at that await
TaskCancelled(h) ==
    /\ running[h].pc = "wb"
    /\ running[h].aborted
    /\ running' = [running EXCEPT ![h] = NoRun]
    /\ UNCHANGED <<mappings, tasks, calls, ncalls, lastRet, hold, storm,
                 refreshVars, response, scheduler, handler, createVars>>

----------------------------------------------------------------------------

Next ==
    \/ \E c \in Callers, m \in Drafts : CallAdd(c, m)
    \/ \E c \in Callers, p \in UpdateInputs : CallUpdate(c, p[1], p[2])
    \/ \E c \in Callers, id \in Ids : CallDelete(c, id)
    \/ \E c \in Callers, id \in Ids : CallPause(c, id)
    \/ \E c \in Callers, id \in Ids : CallResume(c, id)
    \/ \E c \in Callers : Spawn(c)
    \/ \E c \in Callers : Register(c)
    \/ \E c \in Callers : UpdateWrite(c)
    \/ \E c \in Callers : DeleteRemove(c)
    \/ \E c \in Callers : PauseWrite(c)
    \/ \E h \in Handles : TaskBegin(h)
    \/ \E h \in Handles, ok \in BOOLEAN : TaskSign(h, ok)
    \/ \E h \in Handles, ok \in BOOLEAN : TaskPublish(h, ok)
    \/ \E h \in Handles : TaskWriteBack(h)
    \/ \E h \in Handles : TaskCancelled(h)

Spec == Init /\ [][Next]_vars

\* The calls of one caller on one mapping and the tasks they start, under the
\* scheduling of the runtime: a task that is ready to run is polled, a timer
\* that was set fires, a collaborator call returns, and a call that was begun
\* is carried on.
LiveNext ==
    \/ \E m \in Drafts : m.id = 1 /\ CallAdd(1, m)
    \/ \E r \in Replacements : r.id = 1 /\ CallUpdate(1, 1, r)
    \/ CallDelete(1, 1)
    \/ CallPause(1, 1)
    \/ CallResume(1, 1)
    \/ Spawn(1)
    \/ Register(1)
    \/ UpdateWrite(1)
    \/ DeleteRemove(1)
    \/ PauseWrite(1)
    \/ \E h \in Handles : TaskBegin(h)
    \/ \E h \in Handles, ok \in BOOLEAN : TaskSign(h, ok)
    \/ \E h \in Handles, ok \in BOOLEAN : TaskPublish(h, ok)
    \/ \E h \in Handles : TaskWriteBack(h)
    \/ \E h \in Handles : TaskCancelled(h)

LiveFairness ==
    /\ WF_vars(Spawn(1)) /\ WF_vars(Register(1))
    /\ WF_vars(UpdateWrite(1)) /\ WF_vars(DeleteRemove(1)) /\ WF_vars(PauseWrite(1))
    /\ \A h \in Handles :
          /\ WF_vars(TaskBegin(h))
          /\ WF_vars(\E ok \in BOOLEAN : TaskSign(h, ok))
          /\ WF_vars(\E ok \in BOOLEAN : TaskPublish(h, ok))
          /\ WF_vars(TaskWriteBack(h))

LiveSpec == Init /\ [][LiveNext]_vars /\ LiveFairness

----------------------------------------------------------------------------
(* One refresh task with its timer, the clock and the refresh log: the task *)
(* body of start_refresh_task and refresh_url in full, with the calls that  *)
(* store, pause and delete the mapping taken in one step each.              *)

MaxNow == 4
MaxInterval == 2
MaxRefreshes == 3

Intervals == 1..MaxInterval

\* the mapping as add_mapping stores it and hands it to the task
ScheduledMapping(s3_url, refresh_interval) ==
    [id |-> 1, s3_url |-> s3_url, short_url |-> "h1", status |-> "Active",
     last_error |-> None, last_refresh |-> None, next_refresh |-> None,
     refresh_interval |-> refresh_interval]

\* add_mapping: store the mapping as Active and spawn its task
AddMapping(s3_url, refresh_interval) ==
    /\ stored = NoMapping
    /\ task = NoRefresher
    /\ StartsWith(s3_url, S3Prefix)
    /\ stored' = ScheduledMapping(s3_url, refresh_interval)
    /\ task' = [NoRefresher EXCEPT !.m = ScheduledMapping(s3_url, refresh_interval),
                                   !.pc = "start"]
    /\ UNCHANGED <<now, log, receiver, managerVars, response, scheduler, handler, createVars>>

\* time passes
ClockTick ==
    /\ now < MaxNow
    /\ now' = now + 1
    /\ UNCHANGED <<stored, task, log, receiver, managerVars, response, scheduler, handler, createVars>>

\* the scheme and "://" of a presigned url
HttpsPrefix == <<"h", ":", "/", "/">>

\* what generate_presigned_url returns for a bucket and a key: the uri of the
\* presigned request, with the bucket in the host, or, for a client that is
\* configured with an endpoint, with the endpoint's host and port and the
\* bucket in the path
PresignedUrls(bucket, key) ==
    { HttpsPrefix \o bucket \o <<".", "s", "/">> \o key \o <<"?", "k">>,
      HttpsPrefix \o <<"e", ":", "4", "/">> \o bucket \o <<"/">> \o key \o <<"?", "k">> }

\* Url::parse(url) and host_str(): the text between "://" and the first of
\* ':', '/', '?' and '#'; a text without the scheme, or an empty host, is an error
HostStr(url) ==
    IF ~StartsWith(url, HttpsPrefix) THEN None
    ELSE LET rest == StripPrefix(url, HttpsPrefix)
             Ends == {i \in 1..Len(rest) : rest[i] \in {":", "/", "?", "#"}}
             n == IF Ends = {} THEN Len(rest)
                  ELSE (CHOOSE i \in Ends : \A j \in Ends : i <= j) - 1
         IN IF n = 0 THEN None ELSE Some(SubSeq(rest, 1, n))

\* a CNAME target without the trailing dot
ExtractHostnameBare(url) == HostStr(url)

\* Route53Client::extract_hostname: format!("{}.", host)
ExtractHostname(url) ==
    IF HostStr(url) = None THEN None ELSE Some(HostStr(url)[1] \o <<".">>)

\* .ttl(300) of the record set
RecordTtl == 300

\* the change update_dns_record sends: an upsert of one CNAME record set
ChangeBatch(short_url, target) ==
    [action |-> "Upsert", name |-> short_url, type |-> "Cname",
     ttl |-> RecordTtl, value |-> target]

\* the task starts a refresh: at once when spawned, and then each time
\* interval.tick() returns.  The interval is created after the first refresh
\* and its ticks are one period apart; a tick that is overdue returns at once.
\* refresh_url begins with Config::new and parse_s3_url
RefreshBegin ==
    /\ task.pc \in {"start", "tick"}
    /\ task.pc = "tick" => now >= task.due
    /\ task.refreshes < MaxRefreshes
    /\ LET t1 == [task EXCEPT !.refreshes = @ + 1,
                              !.presigned_url = None, !.dns = <<>>,
                              !.ticks = IF task.pc = "tick" THEN @ + 1 ELSE @,
                              !.due = IF task.pc = "tick"
                                      THEN @ + task.m.refresh_interval ELSE @]
       IN task' = IF RefreshParses(task.m.s3_url)
                  THEN [t1 EXCEPT !.pc = "sign"]
                  ELSE [t1 EXCEPT !.pc = "wb", !.result = ResultErr("Invalid S3 URL format")]
    /\ UNCHANGED <<stored, now, log, receiver, managerVars, response, scheduler, handler,
                 createVars>>

\* generate_presigned_url returns
RefreshSign(ok) ==
    /\ task.pc = "sign"
    /\ LET cfg == ConfigParseS3Url(task.m.s3_url)
       IN \E url \in PresignedUrls(cfg.bucket, cfg.key) :
             task' = IF ok THEN [task EXCEPT !.pc = "publish", !.presigned_url = Some(url)]
                     ELSE [task EXCEPT !.pc = "wb", !.result = ResultErr("presign failed")]
    /\ UNCHANGED <<stored, now, log, receiver, managerVars, response, scheduler, handler,
                 createVars>>

\* update_dns_record: the target is taken from the presigned url, the change
\* is sent, and the call returns what Route53 answers
RefreshPublish(ok) ==
    /\ task.pc = "publish"
    /\ LET target == ExtractHostname(task.presigned_url[1])
       IN task' =
            IF target = None
            THEN [task EXCEPT !.pc = "wb",
                              !.result = ResultErr("No hostname in presigned URL")]
            ELSE LET sent == [task EXCEPT !.dns = Append(@, ChangeBatch(task.m.short_url,
                                                                       target[1]))]
                 IN IF ok THEN [sent EXCEPT !.pc = "wb", !.result = ResultOk]
                    ELSE [sent EXCEPT !.pc = "wb",
                                      !.result = ResultErr("dns update failed")]
    /\ UNCHANGED <<stored, now, log, receiver, managerVars, response, scheduler, handler,
                 createVars>>

\* an error message that says nothing
ErrorMsgEmpty(e) == <<>>

\* format!("Failed to refresh URL: {}", e)
ErrorMsg(e) == <<"Failed to refresh URL: ", e>>

\* a write-back that leaves the last error in place
StoredAfterRefreshKeepsError(st, m, result, t) ==
    IF st = NoMapping THEN st
    ELSE IF result = ResultOk
         THEN [st EXCEPT !.last_refresh = Some(t),
                         !.next_refresh = Some(t + m.refresh_interval),
                         !.status = "Active"]
         ELSE [st EXCEPT !.status = "Error", !.last_error = Some(ErrorMsg(result[2]))]

\* the write-back of refresh_url on the entry found under mapping.id, if any
StoredAfterRefresh(st, m, result, t) ==
    IF st = NoMapping THEN st
    ELSE IF result = ResultOk
         THEN [st EXCEPT !.last_refresh = Some(t),
                         !.next_refresh = Some(t + m.refresh_interval),
                         !.status = "Active",
                         !.last_error = None]
         ELSE [st EXCEPT !.status = "Error", !.last_error = Some(ErrorMsg(result[2]))]

\* the RefreshLog record sent on log_tx, inside the same if-let
LogAfterRefresh(lg, st, m, result, t) ==
    IF st = NoMapping THEN lg
    ELSE IF result = ResultOk
         THEN Append(lg, [mapping_id |-> m.id, timestamp |-> t, success |-> TRUE,
                          message |-> <<"Successfully refreshed presigned URL">>])
         ELSE Append(lg, [mapping_id |-> m.id, timestamp |-> t, success |-> FALSE,
                          message |-> ErrorMsg(result[2])])

\* a loop that refreshes again without waiting for a tick
LoopAwaitNothing == "start"

\* the loop of the task: after a refresh it awaits interval.tick()
LoopAwait == "tick"

\* a channel of bounded capacity, on which a send waits while a record is queued
SendBlocksWhenQueued(rc) == rc.open /\ rc.queued >= 1

\* UnboundedSender::send is not async: it never waits, whatever is queued
SendBlocks(rc) == FALSE

\* the channel after n records were passed to send: they are queued while the
\* receiver exists, and dropped with an error the sender ignores when it is gone
ReceiverAfterSend(rc, n) ==
    IF rc.open THEN [rc EXCEPT !.queued = @ + n] ELSE rc

\* the end of refresh_url: take the write lock, write the outcome back and
\* send the log record; refresh_url returns nothing.  After the first refresh
\* the task creates its interval, whose next tick is one period away.  A task
\* that was aborted during the refresh ends at its next await.
RefreshWriteBack ==
    /\ task.pc = "wb"
    /\ stored # NoMapping => ~SendBlocks(receiver)
    /\ stored' = StoredAfterRefresh(stored, task.m, task.result, now)
    /\ log' = LogAfterRefresh(log, stored, task.m, task.result, now)
    /\ task' = IF task.aborted
               THEN [task EXCEPT !.pc = "ended", !.result = <<>>]
               ELSE [task EXCEPT !.pc = LoopAwait, !.result = <<>>,
                                 !.due = IF task.refreshes = 1
                                         THEN now + task.m.refresh_interval ELSE @]
    /\ receiver' = ReceiverAfterSend(receiver, Len(log') - Len(log))
    /\ UNCHANGED <<now, managerVars, response, scheduler, handler, createVars>>

\* an aborted task that found the write lock taken is dropped at that await
RefreshCancelled ==
    /\ task.pc = "wb"
    /\ task.aborted
    /\ task' = [task EXCEPT !.pc = "ended", !.result = <<>>]
    /\ UNCHANGED <<stored, now, log, receiver, managerVars, response, scheduler, handler,
                 createVars>>

\* JoinHandle::abort on the task, as in AbortTask
AbortRefresher(t) ==
    IF t.pc = "wb" THEN [t EXCEPT !.aborted = TRUE]
    ELSE [t EXCEPT !.pc = "ended", !.result = <<>>]

\* pause_mapping: stop the task, set the stored status to Paused
PauseMapping ==
    /\ stored # NoMapping
    /\ task.pc \notin {"none", "ended"}
    /\ ~task.aborted
    /\ task' = AbortRefresher(task)
    /\ stored' = [stored EXCEPT !.status = "Paused"]
    /\ UNCHANGED <<now, log, receiver, managerVars, response, scheduler, handler, createVars>>

\* delete_mapping: stop the task, remove the stored mapping
DeleteMapping ==
    /\ stored # NoMapping
    /\ task.pc \notin {"none", "ended"}
    /\ ~task.aborted
    /\ task' = AbortRefresher(task)
    /\ stored' = NoMapping
    /\ UNCHANGED <<now, log, receiver, managerVars, response, scheduler, handler, createVars>>

\* the consumer of the log takes the oldest queued record (log_rx.recv)
LogRecv ==
    /\ receiver.open
    /\ receiver.queued > 0
    /\ receiver' = [receiver EXCEPT !.queued = @ - 1]
    /\ UNCHANGED <<stored, task, now, log, managerVars, response, scheduler, handler, createVars>>

\* the consumer goes away: the receiver is dropped with what is queued
ReceiverDropped ==
    /\ receiver.open
    /\ receiver' = [open |-> FALSE, queued |-> 0]
    /\ UNCHANGED <<stored, task, now, log, managerVars, response, scheduler, handler, createVars>>

RefreshNext ==
    \/ \E u \in Urls, i \in Intervals : AddMapping(u, i)
    \/ ClockTick
    \/ RefreshBegin
    \/ \E ok \in BOOLEAN : RefreshSign(ok)
    \/ \E ok \in BOOLEAN : RefreshPublish(ok)
    \/ RefreshWriteBack
    \/ RefreshCancelled
    \/ PauseMapping
    \/ DeleteMapping
    \/ LogRecv
    \/ ReceiverDropped

RefreshSpec == Init /\ [][RefreshNext]_vars

----------------------------------------------------------------------------
(* The HTTP update handler (src/src/server.rs): it reads the mapping, sets  *)
(* the fields the request carries, and calls update_mapping with the whole  *)
(* mapping.  Other calls and the refresh task run between its read and the  *)
(* call.                                                                    *)

\* the id the requests are about
HandlerId == 1

\* UpdateMappingRequest: every field is optional
UpdateRequests == [s3_url : {None, Some(UrlDocs)}, short_url : {None, Some("h2")}]

\* the mapping after "Apply updates"
ApplyUpdates(m, req) ==
    [m EXCEPT !.s3_url = IF req.s3_url = None THEN @ ELSE req.s3_url[1],
              !.short_url = IF req.short_url = None THEN @ ELSE req.short_url[1]]

\* get_mapping under the read lock, then the fields of the request are set
\* on the clone; a request for an id that is not stored is answered NOT_FOUND
HandlerRead(req) ==
    /\ handler.pc = "none"
    /\ Present(HandlerId)
    /\ handler' = [NoHandler EXCEPT !.pc = "read",
                                    !.mapping = ApplyUpdates(GetMapping(HandlerId), req)]
    /\ UNCHANGED <<managerVars, refreshVars, response, createVars, scheduler>>

\* state.manager.update_mapping(&id, mapping.clone()) is called
HandlerUpdate(c) ==
    /\ handler.pc = "read"
    /\ handler.mapping.status = "Active" => CanSpawn
    /\ CallStop(c, "update", HandlerId, handler.mapping, "upd_write")
    /\ handler' = [handler EXCEPT !.pc = "update", !.by = c,
                                  !.registered = (tasks[HandlerId] # NoTask)]

\* update_mapping has returned and the handler is about to answer
HandlerReturning == handler.pc = "update" /\ calls[handler.by].pc = "done"

\* the handler answers with the mapping it sent, or with the error
HandlerReturn ==
    /\ HandlerReturning
    /\ handler' = NoHandler
    /\ UNCHANGED <<managerVars, refreshVars, response, createVars, scheduler>>

HandlerNext ==
    \/ HandlerReturn
    \/ \E m \in Drafts : ~HandlerReturning /\ m.id = HandlerId /\ CallAdd(1, m)
    \/ \E req \in UpdateRequests : HandlerRead(req)
    \/ \E c \in Callers : HandlerUpdate(c)
    \/ \E c \in Callers : ~HandlerReturning /\ CallPause(c, HandlerId)
    \/ \E c \in Callers : ~HandlerReturning /\ CallResume(c, HandlerId)
    \/ \E c \in Callers : ~HandlerReturning /\ Spawn(c)
    \/ \E c \in Callers : ~HandlerReturning /\ Register(c)
    \/ \E c \in Callers : ~HandlerReturning /\ UpdateWrite(c)
    \/ \E c \in Callers : ~HandlerReturning /\ PauseWrite(c)
    \/ \E h \in Handles : ~HandlerReturning /\ TaskBegin(h)
    \/ \E h \in Handles, ok \in BOOLEAN : ~HandlerReturning /\ TaskSign(h, ok)
    \/ \E h \in Handles, ok \in BOOLEAN : ~HandlerReturning /\ TaskPublish(h, ok)
    \/ \E h \in Handles : ~HandlerReturning /\ TaskWriteBack(h)
    \/ \E h \in Handles : ~HandlerReturning /\ TaskCancelled(h)

HandlerSpec == Init /\ [][HandlerNext]_vars

----------------------------------------------------------------------------
(* The single-mapping scheduler (src/src/scheduler.rs and src/src/main.rs): *)
(* one configuration, one initial refresh, then one refresh per tick.       *)

\* the configurations main builds: Config::new accepts every url with the
\* s3:// prefix
SchedulerConfigs == {u \in Urls : ConfigNew(u)}

\* Scheduler::new, and run entered
SchedulerInit ==
    /\ \E u \in SchedulerConfigs :
          scheduler = [NoScheduler EXCEPT !.s3_url = u, !.short_url = "h1",
                                          !.pc = "initial"]
    /\ mappings = [i \in Ids |-> NoMapping]
    /\ tasks = [i \in Ids |-> NoTask]
    /\ running = [h \in Handles |-> NoRun]
    /\ calls = [c \in Callers |-> NoCall]
    /\ ncalls = 0
    /\ lastRet = [i \in Ids |-> <<"none", "none">>]
    /\ hold = [i \in Ids |-> NoHold]
    /\ storm = [i \in Ids |-> FALSE]
    /\ stored = NoMapping
    /\ task = NoRefresher
    /\ now = 0
    /\ log = <<>>
    /\ receiver = NewReceiver
    /\ draft = NoDraft
    /\ parseResult = NoParse
    /\ response = NoResponse
    /\ handler = NoHandler

\* refresh_url is entered, by the initial call or when interval.tick()
\* returns; its first step is config.parse_s3_url()?.  Ticks are one period
\* apart, and a tick that is overdue returns at once
SchedulerRefreshBegin ==
    /\ scheduler.pc \in {"initial", "tick"}
    /\ scheduler.pc = "tick" => now >= scheduler.due
    /\ scheduler.refreshes < MaxRefreshes
    /\ LET s1 == [scheduler EXCEPT !.refreshes = @ + 1,
                                   !.due = IF scheduler.pc = "tick" THEN @ + 1 ELSE @,
                                   !.pc = IF scheduler.pc = "initial"
                                          THEN "initial_sign" ELSE "sign"]
           failed == [s1 EXCEPT !.result = ResultErr("Invalid S3 URL format"),
                                !.pc = IF scheduler.pc = "initial"
                                       THEN "initial_done" ELSE "done"]
       IN scheduler' = IF ConfigParseS3Url(scheduler.s3_url).ok THEN s1 ELSE failed
    /\ UNCHANGED <<managerVars, refreshVars, response, createVars, handler>>

\* generate_presigned_url returns
SchedulerSign(ok) ==
    /\ scheduler.pc \in {"initial_sign", "sign"}
    /\ scheduler' =
          IF ok
          THEN [scheduler EXCEPT !.pc = IF scheduler.pc = "sign"
                                        THEN "publish" ELSE "initial_publish"]
          ELSE [scheduler EXCEPT !.pc = IF scheduler.pc = "sign"
                                        THEN "done" ELSE "initial_done",
                                 !.result = ResultErr("presign failed")]
    /\ UNCHANGED <<managerVars, refreshVars, response, createVars, handler>>

\* update_dns_record returns
SchedulerPublish(ok) ==
    /\ scheduler.pc \in {"initial_publish", "publish"}
    /\ scheduler' =
          [scheduler EXCEPT !.pc = IF scheduler.pc = "publish"
                                   THEN "done" ELSE "initial_done",
                            !.result = IF ok THEN ResultOk
                                       ELSE ResultErr("dns update failed")]
    /\ UNCHANGED <<managerVars, refreshVars, response, createVars, handler>>

\* self.refresh_url().await? of the initial refresh: an error is returned
\* from run; after a success the interval is created, its first tick
\* completes at once and the next is one period later
InitialRefreshReturns(s) ==
    IF s.result = ResultOk
    THEN [s EXCEPT !.pc = "tick", !.result = <<>>, !.due = now + 1]
    ELSE [s EXCEPT !.pc = "returned", !.returned = Some(s.result), !.result = <<>>]

\* the initial refresh_url returns to run
SchedulerInitialDone ==
    /\ scheduler.pc = "initial_done"
    /\ scheduler' = InitialRefreshReturns(scheduler)
    /\ UNCHANGED <<managerVars, refreshVars, response, createVars, handler>>

\* a refresh_url of the loop returns: if let Err(e) logs the error, and the
\* loop awaits the next tick
SchedulerLoopDone ==
    /\ scheduler.pc = "done"
    /\ scheduler' = [scheduler EXCEPT !.pc = "tick", !.result = <<>>,
                                      !.logged = IF scheduler.result = ResultOk
                                                 THEN @ ELSE @ + 1]
    /\ UNCHANGED <<managerVars, refreshVars, response, createVars, handler>>

SchedulerNext ==
    \/ ClockTick
    \/ SchedulerRefreshBegin
    \/ \E ok \in BOOLEAN : SchedulerSign(ok)
    \/ \E ok \in BOOLEAN : SchedulerPublish(ok)
    \/ SchedulerInitialDone
    \/ SchedulerLoopDone

SchedulerSpec == SchedulerInit /\ [][SchedulerNext]_vars

----------------------------------------------------------------------------
(* The proxy handler of the router (src/src/server.rs), which answers a     *)
(* request from one snapshot of the mapping table.                          *)

UrlDir == <<"s", "3", ":", "/", "/", "b", "/", "d", "/">>
UrlDirDir == <<"s", "3", ":", "/", "/", "b", "/", "d", "/", "/">>

\* the sources of the stored mappings a request may meet
RouterUrls == {UrlBucketOnly, UrlDocs, UrlDir, UrlDirDir, UrlHttp}

\* the Host values of requests: the hostnames of mappings and one of none
RequestHosts == Hosts \cup {"h3"}

\* the paths of requests
RequestPaths ==
    {<<"/">>, <<"/", "x">>, <<"/", "/", "x">>, <<"/", "x", "/">>,
     <<"/", "x", "/", "y">>}

\* the tables a request may meet: every entry as add and update can leave it
RouterTables ==
    [Ids -> {NoMapping} \cup
            [id : Ids, s3_url : RouterUrls, short_url : Hosts,
             status : Statuses, last_error : {"none"}]]

\* str::trim_start_matches(ch): drop every leading ch
RECURSIVE TrimStartMatches(_, _)
TrimStartMatches(s, ch) ==
    IF Len(s) > 0 /\ s[1] = ch THEN TrimStartMatches(Tail(s), ch) ELSE s

\* str::trim_end_matches(ch): drop every trailing ch
RECURSIVE TrimEndMatches(_, _)
TrimEndMatches(s, ch) ==
    IF Len(s) > 0 /\ s[Len(s)] = ch
    THEN TrimEndMatches(SubSeq(s, 1, Len(s) - 1), ch) ELSE s

\* Mapping::parse_s3_url: the bucket and the base key, which may be empty
MappingParseS3Url(s3_url) ==
    IF ~StartsWith(s3_url, S3Prefix)
    THEN [ok |-> FALSE, bucket |-> <<>>, base_key |-> <<>>]
    ELSE LET parts == SplitN2(StripPrefix(s3_url, S3Prefix))
         IN [ok |-> TRUE, bucket |-> parts[1],
             base_key |-> IF Len(parts) > 1 THEN parts[2] ELSE <<>>]

\* the object key the handler asks a signed url for
FullKey(base_key, path) ==
    LET request_path == TrimStartMatches(path, "/")
    IN IF base_key = <<>>
       THEN request_path
       ELSE LET base == TrimEndMatches(base_key, "/")
            IN IF request_path = <<>>
               THEN base
               ELSE base \o <<"/">> \o request_path

\* Display of MappingStatus
MappingStatusDisplay(status) ==
    CASE status = "Pending" -> "Pending"
      [] status = "Active" -> "Active"
      [] status = "Paused" -> "Paused"
      [] status = "Error" -> "Error"

\* a handler that answers for a mapping whatever its status
ServesAny(status) == TRUE

\* the status check of the handler
Serves(status) == status = "Active"

\* the stored mappings with the hostname of the request
Matching(table, hostname) ==
    {i \in Ids : IF table[i] = NoMapping THEN FALSE
                 ELSE table[i].short_url = hostname}

\* the response to one request.  find() takes the first mapping with the
\* hostname in the order list_mappings returns them, which is the iteration
\* order of the hash map: any of the matching mappings, here pick
ProxyResponse(table, hostname, path, pick, signOk) ==
    LET matching == Matching(table, hostname)
        base == [hostname |-> hostname, path |-> path, found |-> 0,
                 body |-> <<>>, signed |-> <<>>]
    IN IF matching = {}
       THEN [base EXCEPT !.body = <<"No mapping configured for ", hostname>>]
               @@ [status |-> "NOT_FOUND"]
       ELSE LET mapping == table[pick]
                parsed == MappingParseS3Url(mapping.s3_url)
                found == [base EXCEPT !.found = pick]
            IN IF ~Serves(mapping.status)
               THEN [found EXCEPT !.body = <<"Mapping is currently ",
                                            MappingStatusDisplay(mapping.status)>>]
                       @@ [status |-> "SERVICE_UNAVAILABLE"]
               ELSE IF ~parsed.ok
               THEN [found EXCEPT !.body = <<"Failed to parse S3 URL: ">>]
                       @@ [status |-> "INTERNAL_SERVER_ERROR"]
               ELSE LET request == <<parsed.bucket, FullKey(parsed.base_key, path)>>
                    IN IF ~signOk
                       THEN [found EXCEPT !.signed = Some(request),
                                          !.body = <<"Failed to generate presigned URL: ">>]
                               @@ [status |-> "INTERNAL_SERVER_ERROR"]
                       ELSE [found EXCEPT !.signed = Some(request),
                                          !.body = request]
                               @@ [status |-> "TEMPORARY_REDIRECT"]

\* a handler that records a failed presign on the mapping it found
ProxyMarksError(table, hostname, pick, signOk) ==
    IF /\ Matching(table, hostname) # {}
       /\ Serves(table[pick].status)
       /\ MappingParseS3Url(table[pick].s3_url).ok
       /\ ~signOk
    THEN [table EXCEPT ![pick].status = "Error", ![pick].last_error = "err"]
    ELSE table

\* the mapping table after the handler: it works on the Vec of clones that
\* list_mappings returns under the read lock, and calls the manager no more
ProxyTable(table, hostname, pick, signOk) == table

\* proxy_handler: one request handled from a snapshot of the table.  The only
\* provider it calls is generate_presigned_url
ProxyHandler(hostname, path, pick, signOk) ==
    /\ response = NoResponse
    /\ IF Matching(mappings, hostname) = {}
       THEN pick = 1
       ELSE pick \in Matching(mappings, hostname)
    /\ response' = ProxyResponse(mappings, hostname, path, pick, signOk)
    /\ mappings' = ProxyTable(mappings, hostname, pick, signOk)
    /\ UNCHANGED <<tasks, running, calls, ncalls, lastRet, hold, storm,
                   refreshVars, createVars, scheduler, handler>>

\* the router before a request, with any table
RouterInit ==
    /\ mappings \in RouterTables
    /\ \A i \in Ids : mappings[i] # NoMapping => mappings[i].id = i
    /\ tasks = [i \in Ids |-> NoTask]
    /\ running = [h \in Handles |-> NoRun]
    /\ calls = [c \in Callers |-> NoCall]
    /\ ncalls = 0
    /\ lastRet = [i \in Ids |-> <<"none", "none">>]
    /\ hold = [i \in Ids |-> NoHold]
    /\ storm = [i \in Ids |-> FALSE]
    /\ stored = NoMapping
    /\ task = NoRefresher
    /\ now = 0
    /\ log = <<>>
    /\ receiver = NewReceiver
    /\ draft = NoDraft
    /\ parseResult = NoParse
    /\ response = NoResponse
    /\ scheduler = NoScheduler
    /\ handler = NoHandler

RouterNext ==
    \E hostname \in RequestHosts, path \in RequestPaths, pick \in Ids,
       signOk \in BOOLEAN :
        ProxyHandler(hostname, path, pick, signOk)

RouterSpec == RouterInit /\ [][RouterNext]_vars

----------------------------------------------------------------------------
(* A mapping value from its construction to the table, with its time stamps: *)
(* Mapping::new and Mapping::parse_s3_url of src/src/types.rs, the create    *)
(* handler, and the stamps of add, update, pause and resume.  The tasks are  *)
(* left out here; add is split where it waits for the write lock.            *)

MaxLen == 4

DefaultPresignDuration == 300

\* Config::new: a signed url lives 12 hours and is refreshed every 11 hours
ConfigPresignDuration == 43200
ConfigRefreshInterval == 39600

\* FormState::default: the hours the form of the terminal client starts with
FormPresignHours == 12
FormRefreshHours == 11

HourSecs == 3600

\* FormState::to_request: the hours typed into the form, as seconds
ToRequestSecs(hours) == hours * HourSecs

\* the hours a user leaves or types in the duration field of the form
FormHours == {1, FormPresignHours}

\* the presign_duration_secs of a create request: the serde default when the
\* field is absent, or what the form of the terminal client sends
RequestDurations ==
    {DefaultPresignDuration} \cup {ToRequestSecs(h) : h \in FormHours}

\* mapping.refresh_interval() in seconds for a mapping made by Mapping::new:
\* the 11 hours of Config::new and of the form; no handler changes it
MappingRefreshInterval == ConfigRefreshInterval

\* all strings of at most n characters from chars
BoundedStrings(chars, n) == UNION {[1..k -> chars] : k \in 0..n}

\* the sources a mapping is constructed with: with and without the scheme
SourceInputs ==
    LET rest == BoundedStrings({"b", "/"}, MaxLen)
    IN {S3Prefix \o r : r \in rest} \cup rest
          \cup {UrlHttp, SubSeq(S3Prefix, 1, 4)}

\* a constructor that yields an Active mapping
MappingNewActive(id, s3_url, short_url, t) ==
    [id |-> id, s3_url |-> s3_url, short_url |-> short_url, status |-> "Active",
     presign_duration_secs |-> DefaultPresignDuration,
     created_at |-> t, updated_at |-> t, last_error |-> None,
     last_refresh |-> None, next_refresh |-> None,
     refresh_interval |-> MappingRefreshInterval]

\* Mapping::new at time t, with all its fields
MappingNewAt(id, s3_url, short_url, t) ==
    [id |-> id, s3_url |-> s3_url, short_url |-> short_url,
     status |-> MappingNew(id, s3_url, short_url).status,
     presign_duration_secs |-> DefaultPresignDuration,
     created_at |-> t, updated_at |-> t, last_error |-> None,
     last_refresh |-> None, next_refresh |-> None,
     refresh_interval |-> MappingRefreshInterval]

\* create_mapping, first line: Mapping::new(req.s3_url, req.short_url)
NewMapping(s3_url) ==
    /\ draft = NoDraft
    /\ draft' = [m |-> MappingNewAt(1, s3_url, "h1", now), pc |-> "new"]
    /\ UNCHANGED <<parseResult, managerVars, refreshVars, response, scheduler, handler>>

\* create_mapping, second line: the duration of the request
SetPresignDuration(secs) ==
    /\ draft.pc = "new"
    /\ draft' = [draft EXCEPT !.m.presign_duration_secs = secs, !.pc = "request"]
    /\ UNCHANGED <<parseResult, managerVars, refreshVars, response, scheduler, handler>>

\* mapping.parse_s3_url()
ParseS3Url ==
    /\ draft # NoDraft
    /\ ~parseResult.done
    /\ parseResult' = MappingParseS3Url(draft.m.s3_url) @@ [done |-> TRUE]
    /\ UNCHANGED <<draft, managerVars, refreshVars, response, scheduler, handler>>

\* add_mapping up to the wait for the write lock: validate, set the status
\* to Active and stamp updated_at.  A value that was added may be added again.
AddStamp ==
    /\ draft.pc \in {"new", "request", "added"}
    /\ draft' = IF ~AddValid(draft.m)
                THEN [draft EXCEPT !.pc = "rejected"]
                ELSE [draft EXCEPT !.m.status = "Active", !.m.updated_at = now,
                                   !.pc = "stamped"]
    /\ UNCHANGED <<parseResult, managerVars, refreshVars, response, scheduler, handler>>

\* add_mapping under the write lock: mappings.insert(id, mapping.clone())
AddInsert ==
    /\ draft.pc = "stamped"
    /\ stored' = draft.m
    /\ draft' = [draft EXCEPT !.pc = "added"]
    /\ UNCHANGED <<parseResult, managerVars, task, now, log, receiver, response, scheduler, handler>>

\* update_mapping under the write lock, called by the update handler with
\* the stored mapping and the hostname of the request
UpdateStamp ==
    /\ stored # NoMapping
    /\ stored' = [stored EXCEPT !.short_url = "h2", !.updated_at = now]
    /\ UNCHANGED <<createVars, managerVars, task, now, log, receiver, response, scheduler, handler>>

\* pause_mapping under the write lock
PauseStamp ==
    /\ stored # NoMapping
    /\ stored' = [stored EXCEPT !.status = "Paused", !.updated_at = now]
    /\ UNCHANGED <<createVars, managerVars, task, now, log, receiver, response, scheduler, handler>>

\* resume_mapping under the write lock
ResumeStamp ==
    /\ stored # NoMapping
    /\ stored' = [stored EXCEPT !.status = "Active", !.updated_at = now]
    /\ UNCHANGED <<createVars, managerVars, task, now, log, receiver, response, scheduler, handler>>

\* the write-back of a refresh of the stored mapping
WriteBackStamp(result) ==
    /\ stored # NoMapping
    /\ stored.status \in {"Active", "Error"}
    /\ stored' = StoredAfterRefresh(stored, stored, result, now)
    /\ UNCHANGED <<createVars, managerVars, task, now, log, receiver, response, scheduler, handler>>

CreateNext ==
    \/ \E s3_url \in SourceInputs : NewMapping(s3_url)
    \/ \E secs \in RequestDurations : SetPresignDuration(secs)
    \/ ParseS3Url
    \/ AddStamp
    \/ AddInsert
    \/ UpdateStamp
    \/ PauseStamp
    \/ ResumeStamp
    \/ \E result \in {ResultOk, ResultErr("presign failed")} : WriteBackStamp(result)
    \/ ClockTick

CreateSpec == Init /\ [][CreateNext]_vars

----------------------------------------------------------------------------
(* Properties *)

NumLive(id) == Cardinality(Live(id))

\* C1: after any interleaving of add, update, pause, resume and delete, at
\* most one refresh task that has not been stopped runs for any mapping id.
C1_AtMostOneTask == \A id \in Ids : NumLive(id) <= 1

\* C2: the mapping table and the task table are in lock-step whenever no
\* manager call is in progress: an id has a running task only if its stored
\* status is Active, and an Active mapping has exactly one running task.
C2_LockStep ==
    Quiescent =>
        \A id \in Ids :
            /\ NumLive(id) >= 1 => Present(id) /\ mappings[id].status = "Active"
            /\ Present(id) /\ mappings[id].status = "Active" => NumLive(id) = 1

\* C3: once all calls of a run of pause and resume calls on an id have
\* returned, the id has exactly one running task if pause and then resume
\* returned last, and no running task if a pause returned last and left the
\* mapping Paused.
C3_PauseResume ==
    Quiescent =>
        \A id \in Ids :
            storm[id] =>
               /\ lastRet[id] = <<"pause", "resume">> => NumLive(id) = 1
               /\ lastRet[id][2] = "pause" /\ Present(id)
                     /\ mappings[id].status = "Paused" => NumLive(id) = 0

\* C4: a task that has been stopped performs no status write-back: no step in
\* which an aborted task ends changes the mapping table.
C4_StopAwaited ==
    [][\A h \in Handles :
          running[h].aborted /\ running'[h] = NoRun => mappings' = mappings]_vars

\* C5: after a pause of id that overlapped no other call on id has returned Ok,
\* the stored status is Paused until the next call on id begins.
C5_PauseHolds ==
    \A id \in Ids :
        hold[id].op = "pause" => Present(id) /\ mappings[id].status = "Paused"

\* C6: after add(m) has returned Ok(id), and until the next call on id, get(id)
\* returns a mapping with status Active and the source and hostname of m, and
\* exactly one task runs for id.
C6_AddResult ==
    \A id \in Ids :
        hold[id].op = "add" =>
            LET call == calls[hold[id].by]
            IN call.op = "add" /\ call.id = id /\ call.pc = "done" =>
                  /\ GetMapping(id) # NoMapping
                  /\ GetMapping(id).status = "Active"
                  /\ GetMapping(id).s3_url = call.arg.s3_url
                  /\ GetMapping(id).short_url = call.arg.short_url
                  /\ NumLive(id) = 1

\* C7: an add whose source lacks the s3:// prefix returns an error in its one
\* step, which changes neither the mapping table nor the task table and
\* starts no task.
C7_InvalidAddRejected ==
    [][\A c \in Callers :
          (/\ calls'[c] # calls[c]
           /\ calls'[c].op = "add"
           /\ ~StartsWith(calls'[c].arg.s3_url, S3Prefix))
          => /\ calls'[c].pc = "done"
             /\ calls'[c].res = "InvalidSource"
             /\ UNCHANGED <<mappings, tasks, running>>]_vars

\* an add with a bad source has been rejected while a mapping with a task exists
C7_Witness ==
    \E c \in Callers :
        /\ calls[c].op = "add" /\ calls[c].res = "InvalidSource"
        /\ ~StartsWith(calls[c].arg.s3_url, S3Prefix)
        /\ \E id \in Ids : Present(id) /\ tasks[id] # NoTask

\* C8: add is all-or-nothing: an add that returns an error returns it before
\* it has stored anything or started a task, so the tables are as they were
\* before the call, the earlier mapping under the same id included.
C8_AddAllOrNothing ==
    [][\A c \in Callers :
          (/\ calls'[c] # calls[c]
           /\ calls'[c].op = "add"
           /\ calls'[c].pc = "done"
           /\ calls'[c].res # "Ok")
          => /\ Idle(c)
             /\ ~calls'[c].touched
             /\ UNCHANGED <<mappings, tasks, running>>]_vars

\* an add on an id already in the table has failed and the earlier mapping,
\* with its task, is still there
C8_Witness ==
    \E c \in Callers :
        /\ calls[c].op = "add" /\ calls[c].pc = "done" /\ calls[c].res # "Ok"
        /\ ~calls[c].absent
        /\ Present(calls[c].id) /\ tasks[calls[c].id] # NoTask

\* C9: delete, update, pause and resume of an id that is not in the table
\* (and with no other call on the id under way) return NotFound and change
\* neither table.
C9_NotFoundUnchanged ==
    \A c \in Callers :
        (/\ calls[c].op \in {"delete", "update", "pause", "resume"}
         /\ calls[c].pc = "done"
         /\ calls[c].absent
         /\ calls[c].alone)
        => calls[c].res = "NotFound" /\ ~calls[c].touched

\* C10: after delete(id) has returned Ok, and until the next call on id, the
\* mapping is gone and no task runs for id; a second delete returns NotFound.
C10_DeleteFinal ==
    /\ \A id \in Ids :
          hold[id].op = "delete" => GetMapping(id) = NoMapping /\ NumLive(id) = 0
    /\ \A c \in Callers :
          (/\ calls[c].op = "delete" /\ calls[c].pc = "done"
           /\ calls[c].after = "delete" /\ calls[c].alone)
          => calls[c].res = "NotFound"

\* C11: after update(id, r), with r.id = id, that overlapped no other call on
\* id has returned Ok, and until the next call on id, get(id) returns the
\* source and hostname of r, a task runs for id exactly if r.status is Active,
\* and every task running for id refreshes with the source and hostname of r.
C11_UpdateResult ==
    \A id \in Ids :
        hold[id].op = "update" =>
            LET call == calls[hold[id].by]
            IN call.op = "update" /\ call.id = id /\ call.pc = "done" /\ call.arg.id = id =>
                  /\ GetMapping(id) # NoMapping
                  /\ GetMapping(id).s3_url = call.arg.s3_url
                  /\ GetMapping(id).short_url = call.arg.short_url
                  /\ NumLive(id) >= 1 <=> call.arg.status = "Active"
                  /\ \A h \in Live(id) :
                        /\ running[h].m.s3_url = call.arg.s3_url
                        /\ running[h].m.short_url = call.arg.short_url

\* C12: an update of a stored id whose replacement has a source without the
\* s3:// prefix returns a validation error in its one step, which changes
\* neither the mapping table nor the task table and stops no task.
C12_InvalidUpdateRejected ==
    [][\A c \in Callers :
          (/\ Idle(c)
           /\ calls'[c] # calls[c]
           /\ calls'[c].op = "update"
           /\ Present(calls'[c].id)
           /\ ~StartsWith(calls'[c].arg.s3_url, S3Prefix))
          => /\ calls'[c].pc = "done"
             /\ calls'[c].res = "InvalidSource"
             /\ UNCHANGED <<mappings, tasks, running>>]_vars

C14_Serialized ==
    \A id \in Ids : Cardinality({c \in Callers : Concerns(c, id)}) <= 1

\* the step in which a task that has not been stopped ends a refresh
EndsRefresh == task.pc = "wb" /\ ~task.aborted /\ task'.pc # "wb"

\* C15: a refresh that succeeded and finds its mapping stored sets the stored
\* status to Active, clears last_error, stamps last_refresh with the current
\* time and next_refresh with the current time plus the refresh interval,
\* leaves the other fields alone, and emits one success log record.
C15_SuccessWriteBack ==
    [][(EndsRefresh /\ task.result = ResultOk /\ stored # NoMapping)
       => /\ stored' = [stored EXCEPT
                           !.status = "Active",
                           !.last_error = None,
                           !.last_refresh = Some(now),
                           !.next_refresh = Some(now + task.m.refresh_interval)]
          /\ Len(log') = Len(log) + 1
          /\ SubSeq(log', 1, Len(log)) = log
          /\ log'[Len(log')].success
          /\ log'[Len(log')].mapping_id = task.m.id
          /\ log'[Len(log')].timestamp = now]_vars

\* a refresh failed and a later one succeeded: the mapping is Active again,
\* its error is cleared and its stamps are those of the successful refresh
C15_Witness ==
    /\ Len(log) = 2
    /\ ~log[1].success /\ log[2].success
    /\ log[2].timestamp > 0
    /\ stored # NoMapping
    /\ stored.status = "Active" /\ stored.last_error = None
    /\ stored.last_refresh = Some(log[2].timestamp)
    /\ stored.next_refresh = Some(log[2].timestamp + stored.refresh_interval)

\* C16: a refresh that failed at parsing, signing or publishing and finds its
\* mapping stored sets the stored status to Error and last_error to a message
\* that is not empty, emits one failure log record, returns nothing to any
\* caller and does not end the task, which goes on to await its next tick.
C16_FailureWriteBack ==
    [][(EndsRefresh /\ task.result # ResultOk /\ stored # NoMapping)
       => /\ stored'.status = "Error"
          /\ stored'.last_error # None
          /\ Len(stored'.last_error[1]) > 0
          /\ stored' = [stored EXCEPT !.status = "Error",
                                      !.last_error = stored'.last_error]
          /\ Len(log') = Len(log) + 1
          /\ SubSeq(log', 1, Len(log)) = log
          /\ ~log'[Len(log')].success
          /\ log'[Len(log')].mapping_id = task.m.id
          /\ Some(log'[Len(log')].message) = stored'.last_error
          /\ task'.pc = "tick"
          /\ task'.result = <<>>
          /\ UNCHANGED managerVars]_vars

\* two refreshes failed at different stages and the task awaits its next tick
C16_Witness ==
    /\ Len(log) = 2
    /\ ~log[1].success /\ ~log[2].success
    /\ log[1].message # log[2].message
    /\ stored # NoMapping /\ stored.status = "Error"
    /\ stored.last_error = Some(log[2].message)
    /\ task.pc = "tick"

\* C18: a task can begin its first refresh as soon as it is started, without
\* a tick; every later refresh begins on a tick that has come due and uses up
\* exactly that tick, ticks being one interval apart; a refresh begins only
\* while no refresh of the task is under way; and a task that has been
\* stopped begins no refresh.
C18_OnePerTick ==
    /\ [](task.pc = "start" => ENABLED RefreshBegin)
    /\ [](/\ task.refreshes <= task.ticks + 1
          /\ task.pc \in {"sign", "publish", "wb", "tick"}
                => task.refreshes = task.ticks + 1)
    /\ [][/\ task'.refreshes \in {task.refreshes, task.refreshes + 1}
          /\ task'.refreshes = task.refreshes + 1
                => /\ task.pc \in {"start", "tick"}
                   /\ ~task.aborted
                   /\ task'.pc \in {"sign", "wb"}
                   /\ task.pc = "start" => task'.ticks = task.ticks
                   /\ task.pc = "tick"
                         => /\ now >= task.due
                            /\ task'.ticks = task.ticks + 1
                            /\ task'.due = task.due + task.m.refresh_interval
          /\ task'.refreshes = task.refreshes => task'.ticks = task.ticks
          /\ (EndsRefresh /\ task.refreshes = 1)
                => task'.due = now + task.m.refresh_interval
          /\ task.pc = "ended" => task' = task]_vars

\* the task has made its first refresh and one more on each of two ticks
C18_Witness ==
    /\ task.pc = "tick"
    /\ task.refreshes = 3 /\ task.ticks = 2
    /\ Len(log) = 3

\* C17: a stored mapping in status Error keeps being retried unless it was
\* paused or deleted: while the last call on its id is an add, a resume or an
\* update that overlapped no other call and returned Ok, a task runs for it.
C17_ErrorRetried ==
    \A id \in Ids :
        (/\ hold[id].op \in {"add", "resume", "update"}
         /\ Present(id)
         /\ mappings[id].id = id
         /\ mappings[id].status = "Error")
        => NumLive(id) >= 1

\* C19: the router answers not-found exactly when no stored mapping has the
\* hostname of the request; when the mapping it found is not Active it
\* answers service-unavailable, naming that status, and asks for no signed
\* url; it asks for a signed url, and answers with a temporary redirect to
\* it, only when the mapping it found is Active.
C19_RouterStatus ==
    response # NoResponse =>
        LET matching == Matching(mappings, response.hostname)
        IN /\ response.status = "NOT_FOUND" <=> matching = {}
           /\ matching = {} => response.signed = None
           /\ matching # {} =>
                 /\ response.found \in matching
                 /\ mappings[response.found].status # "Active"
                       => /\ response.status = "SERVICE_UNAVAILABLE"
                          /\ response.body = <<"Mapping is currently ",
                                               mappings[response.found].status>>
                          /\ response.signed = None
                 /\ response.signed # None
                       => mappings[response.found].status = "Active"
                 /\ response.status = "TEMPORARY_REDIRECT"
                       => /\ mappings[response.found].status = "Active"
                          /\ response.signed = Some(response.body)
                 /\ response.status = "SERVICE_UNAVAILABLE"
                       => mappings[response.found].status # "Active"

\* a request for the hostname of an Active mapping has been redirected while
\* the other stored mapping is Paused
C19_Witness ==
    /\ response # NoResponse
    /\ response.status = "TEMPORARY_REDIRECT"
    /\ response.found = 1
    /\ mappings[1].status = "Active"
    /\ mappings[2] # NoMapping
    /\ mappings[2].status = "Paused"

\* the key the statement of C20 describes: the path without its leading '/'
\* when the prefix is empty; the prefix without trailing '/' when that path
\* is empty; else the two joined, with a '/' put between them only when the
\* prefix does not end in one
ClaimedKey(key_prefix, path) ==
    LET stripped == IF Len(path) > 0 /\ path[1] = "/" THEN Tail(path) ELSE path
    IN IF key_prefix = <<>> THEN stripped
       ELSE IF stripped = <<>> THEN TrimEndMatches(key_prefix, "/")
       ELSE IF key_prefix[Len(key_prefix)] = "/" THEN key_prefix \o stripped
       ELSE key_prefix \o <<"/">> \o stripped

\* C20: the key the router asks a signed url for is the key composed from the
\* key prefix of the mapping and the request path with no '/' of either
\* dropped or doubled.
C20_KeyComposition ==
    (response # NoResponse /\ response.signed # None) =>
        response.signed[1][2] =
            ClaimedKey(MappingParseS3Url(mappings[response.found].s3_url).base_key,
                       response.path)

HasSlash(s) == \E i \in 1..Len(s) : s[i] = "/"

\* C21: parsing s3://bucket/key yields exactly (bucket, key), split at the
\* first '/' after the scheme with the key's trailing '/' kept; s3://bucket
\* without a '/' yields (bucket, empty key); a string without the s3://
\* prefix yields an error
C21_ParseExact ==
    parseResult.done =>
        LET u == draft.m.s3_url
            rest == SubSeq(u, Len(S3Prefix) + 1, Len(u))
        IN IF Len(u) >= Len(S3Prefix) /\ SubSeq(u, 1, Len(S3Prefix)) = S3Prefix
           THEN /\ parseResult.ok
                /\ ~HasSlash(parseResult.bucket)
                /\ HasSlash(rest) =>
                       rest = parseResult.bucket \o <<"/">> \o parseResult.base_key
                /\ ~HasSlash(rest) =>
                       parseResult.bucket = rest /\ parseResult.base_key = <<>>
           ELSE ~parseResult.ok

\* a parsed source whose key holds a '/' and ends in one
C21_Witness ==
    /\ parseResult.done
    /\ parseResult.ok
    /\ parseResult.bucket = <<"b">>
    /\ parseResult.base_key = <<"b", "/">>

\* the step in which the write-back of an attempt runs: the task was not
\* stopped, or it was stopped by a delete that has already removed the entry
\* and released the lock, so that the task is not dropped at the lock
WriteBackRuns ==
    /\ task.pc = "wb"
    /\ task'.pc # "wb"
    /\ task.aborted => stored = NoMapping

\* C22: every refresh attempt, successful or failed, produces exactly one
\* log record, with the id of the refreshed mapping and success = true
\* exactly when the attempt succeeded; the records of a mapping are in the
\* order in which its attempts completed
C22_OneRecordPerAttempt ==
    /\ [][WriteBackRuns
             => /\ Len(log') = Len(log) + 1
                /\ SubSeq(log', 1, Len(log)) = log
                /\ log'[Len(log')].mapping_id = task.m.id
                /\ log'[Len(log')].success = (task.result = ResultOk)]_vars
    /\ [][log' # log => task.pc = "wb" /\ task'.pc # "wb"]_vars
    /\ [](\A i, j \in 1..Len(log) : i < j => log[i].timestamp <= log[j].timestamp)

\* C23: log emission never blocks or fails a refresh: whether the consumer
\* of the log is slow, never reads or has been dropped, and whatever number
\* of records is pending, a refresh that has its outcome can complete its
\* write-back, the write-back stores the status of the outcome, and the task
\* goes on to await its next tick
C23_LogNeverBlocks ==
    /\ [](task.pc = "wb" => ENABLED RefreshWriteBack)
    /\ [][(EndsRefresh /\ stored # NoMapping)
             => /\ stored'.status = IF task.result = ResultOk
                                    THEN "Active" ELSE "Error"
                /\ task'.pc = "tick"
                /\ receiver'.open = receiver.open
                /\ receiver'.queued = IF receiver.open THEN receiver.queued + 1
                                      ELSE receiver.queued]_vars

\* the consumer has read nothing: two records are pending, the write-backs
\* are done and the task awaits its next tick
C23_Witness ==
    /\ receiver.open
    /\ receiver.queued >= 2
    /\ Len(log) = receiver.queued
    /\ stored # NoMapping
    /\ task.pc = "tick"

\* a task awaits the Signed-URL Provider or the DNS Record Publisher
Hangs(h) == running[h].pc \in {"sign", "publish"}

\* the caller whose turn it is can begin a call
CanBegin(c) ==
    /\ Idle(c)
    /\ \A d \in Callers : Idle(d) => c <= d
    /\ ncalls < MaxCalls

\* C24: while a call to the provider or the publisher hangs, no lock of the
\* mapping table is held, so get, list and the router's lookup can read it;
\* every manager call under way can take its next step and every call can
\* begin; and every other task can begin its refresh or write its outcome back
C24_HangStallsOnlyCaller ==
    \A h \in Handles : Hangs(h) =>
        /\ ~MappingsLocked
        /\ \A c \in Callers :
              /\ calls[c].pc = "spawn" => ENABLED Spawn(c)
              /\ calls[c].pc = "register" => ENABLED Register(c)
              /\ calls[c].pc = "upd_write" => ENABLED UpdateWrite(c)
              /\ calls[c].pc = "del_remove" => ENABLED DeleteRemove(c)
              /\ calls[c].pc = "pause_write" => ENABLED PauseWrite(c)
              /\ CanBegin(c) =>
                    \A id \in Ids :
                       /\ ENABLED CallPause(c, id)
                       /\ ENABLED CallDelete(c, id)
                       /\ CanSpawn =>
                             /\ ENABLED CallResume(c, id)
                             /\ \A m \in Drafts : ENABLED CallAdd(c, m)
                             /\ \A r \in Replacements : ENABLED CallUpdate(c, id, r)
        /\ \A g \in Handles \ {h} :
              /\ running[g].pc \in {"start", "tick"} => ENABLED TaskBegin(g)
              /\ running[g].pc = "wb" => ENABLED TaskWriteBack(g)

\* one task awaits the publisher while a pause of the other mapping is about
\* to write and the task of a third call is about to write its outcome back
C24_Witness ==
    \E h, g \in Handles, c \in Callers :
        /\ running[h].pc = "publish"
        /\ running[g].pc = "wb"
        /\ running[g].id # running[h].id
        /\ calls[c].pc = "pause_write"

\* C25: the id of a mapping is immutable: each stored mapping's id equals
\* the key it is stored under, the task registered under an id is a task of
\* the mapping with that id, and a step of a refresh task changes at most
\* the table entry of the mapping the task was started for
C25_IdImmutable ==
    /\ [](\A id \in Ids :
            /\ Present(id) => mappings[id].id = id
            /\ (tasks[id] # NoTask /\ running[tasks[id]] # NoRun)
                  => running[tasks[id]].id = id)
    /\ [][\A h \in Handles :
            (running[h].pc = "wb" /\ running'[h] # running[h] /\ calls' = calls)
               => \A id \in Ids \ {running[h].id} : mappings'[id] = mappings[id]]_vars

\* a step of update, pause or resume on the stored mapping
StampingStep ==
    /\ stored # NoMapping
    /\ stored' # NoMapping
    /\ stored' # stored
    /\ draft' = draft
    /\ \/ stored'.short_url # stored.short_url
       \/ stored'.status = "Paused"
       \/ stored.status = "Paused" /\ stored'.status = "Active"

\* C26: the updated_at of a stored mapping never decreases across add,
\* update, pause, resume and refresh write-backs; each of the four calls
\* stamps it with the current time; and created_at <= updated_at always
C26_StampsMonotonic ==
    /\ [](stored # NoMapping => stored.created_at <= stored.updated_at)
    /\ [][StampingStep => stored'.updated_at = now]_vars
    /\ [][(draft'.pc = "stamped" /\ draft.pc # "stamped")
              => draft'.m.updated_at = now]_vars
    /\ [][(stored # NoMapping /\ stored' # NoMapping)
              => stored'.updated_at >= stored.updated_at]_vars

\* C27: no two stored mappings share a hostname, add and update rejecting a
\* hostname that another stored mapping uses, so that the router's lookup
\* of a hostname matches at most one mapping
C27_HostnameUnique ==
    \A i, j \in Ids :
        (i # j /\ Present(i) /\ Present(j))
            => mappings[i].short_url # mappings[j].short_url

\* C28: for every mapping with a scheduled refresh task the refresh interval
\* is strictly shorter than the duration of its signed url, so that the next
\* refresh is due before the url issued last expires; the same holds for the
\* default configuration and for the defaults of the form
C28_IntervalBelowTtl ==
    /\ ConfigRefreshInterval < ConfigPresignDuration
    /\ ToRequestSecs(FormRefreshHours) < ToRequestSecs(FormPresignHours)
    /\ (stored # NoMapping /\ stored.status \in {"Active", "Error"})
          => stored.refresh_interval < stored.presign_duration_secs

LeavesError(id) ==
    /\ Present(id)
    /\ mappings[id].status = "Error"
    /\ mappings'[id] = NoMapping \/ mappings'[id].status # "Error"

\* this step is the write-back of a successful refresh of the mapping id
SuccessfulWriteBack(id) ==
    \E h \in Handles :
        /\ running[h].pc = "wb"
        /\ running[h].res = "ok"
        /\ running[h].m.id = id
        /\ running'[h].pc # "wb"
        /\ calls' = calls

\* this step is the write of the call op on id that has already begun
WriteOf(pc, id) ==
    \E c \in Callers :
        calls[c].pc = pc /\ calls[c].id = id /\ calls'[c].pc # pc

\* this step begins a call op on id that writes the entry at once
BeginOf(op, id) ==
    \E c \in Callers :
        /\ Idle(c)
        /\ calls'[c].op = op
        /\ calls'[c].id = id
        /\ calls'[c].pc = "spawn"

\* C30 as stated: a stored mapping in Error leaves Error only by a
\* successful refresh (to Active), by pause (to Paused) or by delete; no
\* other call, resume and update in particular, takes it out of Error
C30_ErrorLeftByRefreshOnly ==
    [][\A id \in Ids :
         LeavesError(id)
            => \/ mappings'[id] = NoMapping /\ WriteOf("del_remove", id)
               \/ /\ mappings'[id] # NoMapping
                  /\ \/ mappings'[id].status = "Paused" /\ WriteOf("pause_write", id)
                     \/ mappings'[id].status = "Active" /\ SuccessfulWriteBack(id)]_vars

\* C30 amended: a stored mapping in Error leaves Error only by a successful
\* refresh (to Active) or by a call of the operator on its id: pause (to
\* Paused), delete, resume (to Active), add (to Active) or update (to the
\* status of the replacement); a failed refresh, and every step of a call
\* or a task of another id, leaves it in Error
C30_ErrorLeftByRefreshOrCall ==
    [][\A id \in Ids :
         LeavesError(id)
            => \/ mappings'[id] = NoMapping /\ WriteOf("del_remove", id)
               \/ /\ mappings'[id] # NoMapping
                  /\ \/ mappings'[id].status = "Paused" /\ WriteOf("pause_write", id)
                     \/ mappings'[id].status = "Active" /\ SuccessfulWriteBack(id)
                     \/ mappings'[id].status = "Active" /\ BeginOf("resume", id)
                     \/ mappings'[id].status = "Active" /\ BeginOf("add", id)
                     \/ \E c \in Callers :
                          /\ calls[c].pc = "upd_write"
                          /\ calls[c].id = id
                          /\ mappings'[id] = calls[c].arg]_vars

\* a mapping in Error was resumed: it is Active and still carries the error
\* of its last refresh, which a successful refresh would have cleared
C30_Witness ==
    \E id \in Ids :
        /\ Present(id)
        /\ mappings[id].status = "Active"
        /\ mappings[id].last_error = "err"
        /\ hold[id].op = "resume"

\* a call to the Signed-URL Provider or the DNS Record Publisher fails
ProviderFails ==
    \E h \in Handles :
        /\ running[h].pc \in {"sign", "publish"}
        /\ running'[h].pc = "wb"
        /\ running'[h].res = "err"

\* a pause or a delete of the mapping begins or writes
PauseOrDelete ==
    \E c \in Callers :
        /\ calls'[c] # calls[c]
        /\ calls'[c].op \in {"pause", "delete"}

\* C31: recovery is live: when from some point on the provider and the
\* publisher succeed and the mapping is neither paused nor deleted, then under
\* fair scheduling a mapping in Error eventually is Active with last_error
\* cleared (or had been paused or deleted before that point)
C31_RecoveryLive ==
    (<>[][~ProviderFails /\ ~PauseOrDelete]_vars)
        => ((Present(1) /\ mappings[1].status = "Error")
               ~> \/ ~Present(1)
                  \/ mappings[1].status = "Paused"
                  \/ mappings[1].status = "Active" /\ mappings[1].last_error = "none")

----------------------------------------------------------------------------
(* C33: within one refresh the steps run in the order parse, sign, publish. *)
(* At most one DNS change is sent in a refresh, and only when the           *)
(* presigned url of that refresh was obtained; the change names the         *)
(* mapping's hostname, has TTL 300, and its target is the host of the       *)
(* presigned url (the text after "://" up to the port, path or query)       *)
(* followed by one dot.  A refresh whose parse or presign failed sends no   *)
(* change.                                                                  *)

\* the position after the host in a url that begins with the scheme
HostEnd(url) ==
    CHOOSE n \in Len(HttpsPrefix)..Len(url) :
        /\ \A i \in (Len(HttpsPrefix) + 1)..n : url[i] \notin {":", "/", "?", "#"}
        /\ n < Len(url) => url[n + 1] \in {":", "/", "?", "#"}

C33_ParseSignPublish ==
    /\ Len(task.dns) <= 1
    /\ task.pc = "publish" => task.presigned_url # None /\ task.dns = <<>>
    /\ task.pc \in {"start", "sign"} => task.presigned_url = None /\ task.dns = <<>>
    /\ task.pc = "sign" => RefreshParses(task.m.s3_url)
    /\ task.dns # <<>> =>
          /\ task.presigned_url # None
          /\ task.dns[1].name = task.m.short_url
          /\ task.dns[1].ttl = 300
          /\ task.dns[1].value
                = SubSeq(task.presigned_url[1], Len(HttpsPrefix) + 1,
                         HostEnd(task.presigned_url[1])) \o <<".">>
    /\ (task.pc = "wb" /\ task.result \in {ResultErr("Invalid S3 URL format"),
                                            ResultErr("presign failed")})
          => task.dns = <<>>

\* a second refresh has sent its change, for an endpoint url with a port
C33_Witness ==
    /\ task.pc = "wb"
    /\ task.refreshes = 2
    /\ task.result = ResultOk
    /\ Len(task.dns) = 1
    /\ task.presigned_url = Some(<<"h", ":", "/", "/", "e", ":", "4", "/", "b", "/", "d", "?", "k">>)
    /\ task.dns[1].value = <<"e", ".">>

----------------------------------------------------------------------------
(* C34: handling a proxy request sends no DNS change and leaves the mapping *)
(* table and the task table as they were, whatever the response.  When the  *)
(* presign fails for an Active mapping whose source parses, the response is *)
(* an internal error and the mapping stays Active with no last_error.       *)

C34_ProxyFrame ==
    [][response' # response
         => /\ mappings' = mappings
            /\ tasks' = tasks
            /\ running' = running
            /\ task' = task
            /\ response'.status \in {"NOT_FOUND", "SERVICE_UNAVAILABLE",
                                     "INTERNAL_SERVER_ERROR", "TEMPORARY_REDIRECT"}
            /\ response'.status = "INTERNAL_SERVER_ERROR"
                  => /\ mappings'[response'.found].status = "Active"
                     /\ mappings'[response'.found].last_error = "none"
            /\ (response'.status # "TEMPORARY_REDIRECT" /\ response'.found # 0)
                  => \/ mappings[response'.found].status # "Active"
                     \/ response'.status = "INTERNAL_SERVER_ERROR"]_vars

\* a presign failed for an Active mapping with a bucket and a key
C34_Witness ==
    /\ response # NoResponse
    /\ response.status = "INTERNAL_SERVER_ERROR"
    /\ response.signed = Some(<<<<"b">>, <<"d", "/", "x">>>>)
    /\ mappings[response.found].status = "Active"
    /\ \E i \in Ids : i # response.found /\ Present(i)

----------------------------------------------------------------------------
(* C35: the single-mapping scheduler keeps running when a refresh fails:    *)
(* run never returns because of a failed refresh, the initial one or a      *)
(* periodic one; the failure is logged and the loop goes on with the next   *)
(* tick.                                                                    *)

C35_RunNeverReturns ==
    scheduler.pc # "none" => scheduler.pc # "returned" /\ scheduler.returned = None

----------------------------------------------------------------------------
(* C36: every source that add accepts is one the parse step of the refresh  *)
(* accepts: the source of a stored mapping parses into a bucket and a key,  *)
(* and no refresh of an added mapping ends with the invalid-source error.   *)

C36_AddedSourceParses ==
    /\ stored # NoMapping => RefreshParses(stored.s3_url)
    /\ task.pc = "wb" => task.result # ResultErr("Invalid S3 URL format")

----------------------------------------------------------------------------
(* C37: no task outlives its mapping: whenever no call on its id is under   *)
(* way, a refresh task that has not been stopped belongs to an id that is   *)
(* present in the mapping table, and the task table holds its handle under  *)
(* that id, so that a later pause, update or delete can stop it.            *)

C37_NoTaskOutlivesMapping ==
    \A h \in Handles :
        (/\ running[h] # NoRun
         /\ ~running[h].aborted
         /\ \A c \in Callers : ~Concerns(c, running[h].id))
        => /\ Present(running[h].id)
           /\ tasks[running[h].id] = h

----------------------------------------------------------------------------
(* C38: delete is final.  When delete(id) returns Ok the table has no entry *)
(* for id, and from then on, until an add inserts a mapping with that id,   *)
(* it has none: no step of a refresh task, the write-back of a refresh that *)
(* was still finishing included, and no step of another call puts an entry  *)
(* under an id that has none.                                               *)

C38_DeleteIsFinal ==
    [][/\ calls' # calls =>
            \A c \in Callers :
                (/\ calls'[c].pc = "done" /\ calls[c].pc # "done"
                 /\ calls[c].op = "delete" /\ calls'[c].res = "Ok")
                => /\ mappings[calls[c].id] # NoMapping
                   /\ mappings'[calls[c].id] = NoMapping
       /\ mappings' # mappings =>
            \A id \in Ids :
                (mappings[id] = NoMapping /\ mappings'[id] # NoMapping)
                => /\ running' = running
                   /\ \E c \in Callers :
                         /\ calls'[c] # calls[c]
                         /\ calls'[c].op = "add" /\ calls'[c].id = id
                         /\ mappings'[id] = calls'[c].arg]_vars

\* delete has returned Ok and the refresh its stop found under way is about
\* to write back for the id that is gone
C38_Witness ==
    \E h \in Handles, c \in Callers :
        /\ running[h].pc = "wb"
        /\ running[h].aborted
        /\ ~Present(running[h].m.id)
        /\ calls[c].op = "delete" /\ calls[c].id = running[h].m.id
        /\ calls[c].pc = "done" /\ calls[c].res = "Ok"
        /\ \A d \in Callers : d # c => Idle(d)

----------------------------------------------------------------------------
(* C39: the HTTP update handler changes only the source, the hostname, the  *)
(* TTL and updated_at of the mapping.  The write of its update call leaves  *)
(* the stored status as it is, and when its update call returns Ok the      *)
(* mapping has a registered task exactly if it had one when the call began; *)
(* this also when a pause, a resume or a write-back for the id completed    *)
(* between the handler's read and its call, and already for an update call  *)
(* that overlaps no other call on the id.                                   *)

C39_UpdateHandlerFrame ==
    [][handler.pc = "update" =>
         LET c == handler.by
         IN calls'[c].alone =>
              /\ (calls[c].pc = "upd_write" /\ calls'[c].pc # "upd_write"
                   /\ Present(HandlerId))
                  => mappings'[HandlerId].status = mappings[HandlerId].status
              /\ (calls[c].pc # "done" /\ calls'[c].pc = "done"
                   /\ calls'[c].res = "Ok")
                  => (tasks'[HandlerId] # NoTask) = handler.registered]_vars

----------------------------------------------------------------------------
(* C40: in every reachable state a stored mapping in status Active has no   *)
(* last_error and a stored mapping in status Error has one: no call leaves  *)
(* the description of an old failure on an Active mapping.                  *)

============================================================================
